---- MODULE Spec2Model ----
(***************************************************************************)
(* Model of InstagramAPI.post_image (src/post_instagram.py): the sequence  *)
(* of Graph API calls one invocation issues, the responses it receives and *)
(* the value it returns or the exception it lets escape.                   *)
(*                                                                         *)
(* Python values:                                                          *)
(*   - an optional value (None or v) is <<>> or <<v>>;                     *)
(*   - a dict is a record, `"k" in d` is "k" \in DOMAIN d;                 *)
(*   - a decoded JSON value is a record tagged by t ("num", "str", "obj"), *)
(*     an object carrying its members in f.                                *)
(* The Korean message texts of the source are written in ASCII here, the   *)
(* original text is given in the comment next to each.                     *)
(***************************************************************************)
EXTENDS Integers, Sequences, FiniteSets, TLC

\* ------------------------------------------------------------------ bounds
MaxImages == 3          \* longest list of image URLs passed to post_image

\* ------------------------------------------------------------ input values
None == <<>>
Some(v) == <<v>>

Urls == {"http://a/1.jpg", "http://b/2.png"}
UrlLists == UNION {[1..n -> Urls] : n \in 0..MaxImages}
\* image_paths: a str or a list of str
ImagePathInputs == {[isstr |-> TRUE, str |-> u, list |-> <<>>] : u \in Urls}
                   \cup {[isstr |-> FALSE, str |-> "", list |-> l] : l \in UrlLists}
\* caption: None, "" or a text
CaptionInputs == {None, Some(""), Some("hello")}
\* datetime.now(): year, month, day, weekday() (0 = Monday)
Nows == {[year |-> 2024, month |-> 1, day |-> 1, weekday |-> 0],
         [year |-> 2026, month |-> 11, day |-> 4, weekday |-> 2],
         [year |-> 2025, month |-> 12, day |-> 28, weekday |-> 6]}

\* -------------------------------------------------- upstream API behaviour
Ids == {"17", "18"}
\* response.json() of a 2xx response: a JSON object with or without "id"
OkResponses == {[id |-> x] : x \in Ids} \cup {[status |-> "IN_PROGRESS"]}

JNum == [t |-> "num"]
JStr(s) == [t |-> "str", s |-> s]
JObj(f) == [t |-> "obj", f |-> f]
Messages == {"Invalid URL", "Rate limit"}
\* e.response of a RequestException: None, or a response whose body is not
\* JSON, or one whose body decodes to a JSON value
NoResponse == [present |-> FALSE, isjson |-> FALSE, data |-> JNum]
NotJsonBody == [present |-> TRUE, isjson |-> FALSE, data |-> JNum]
JsonBody(d) == [present |-> TRUE, isjson |-> TRUE, data |-> d]
ErrorDatas == {JNum,
               JObj([code |-> JNum]),
               JObj([error |-> JObj([code |-> JNum])]),
               JObj([error |-> JStr("bad request")])}
              \cup {JObj([error |-> JObj([message |-> JStr(m)])]) : m \in Messages}
\* requests.post raising (no response) and raise_for_status raising (response)
RequestExceptions ==
    {[str |-> "Connection aborted", response |-> NoResponse]}
    \cup {[str |-> "400 Client Error: Bad Request", response |-> b] :
            b \in {NotJsonBody} \cup {JsonBody(d) : d \in ErrorDatas}}

\* -------------------------------------------------------------- credentials
access_token == "TOKEN"
account_id == "ACCOUNT"

VARIABLES
    pc,            \* position of the invocation
    image_paths,   \* local image_paths (a list once normalised)
    caption,       \* local caption (a str once defaulted)
    children_ids,  \* local children_ids
    container,     \* local container (the container response)
    calls,         \* HTTP calls issued so far, in order
    resps,         \* how each call ended: a response or an exception
    arg_paths,     \* the image_paths argument as passed
    arg_caption,   \* the caption argument as passed
    outcome,       \* "running", "returned" or "raised"
    result,        \* the returned dict, when outcome = "returned"
    exception      \* the escaping exception's type, when outcome = "raised"

vars == <<pc, image_paths, caption, children_ids, container, calls, resps,
          arg_paths, arg_caption, outcome, result, exception>>

\* ------------------------------------------------------------ pure helpers
Pad2(n) == IF n < 10 THEN "0" \o ToString(n) ELSE ToString(n)

\* weekdays: 월요일 .. 일요일
weekdays == <<"wolyoil", "hwayoil", "suyoil", "mogyoil", "geumyoil",
              "toyoil", "iryoil">>

\* f"{now.year}년 {now.month:02d}월 {now.day:02d}일 {weekday} MQ 글로벌 증권가 뉴스"
_get_formatted_date(now) ==
    ToString(now.year) \o "nyeon " \o Pad2(now.month) \o "wol "
    \o Pad2(now.day) \o "il " \o weekdays[now.weekday + 1]
    \o " MQ global jeunggwonga news"

\* the default taken for every falsy caption: `if not caption`
DefaultCaption_Falsy(cap, now) ==
    IF cap = None \/ cap[1] = "" THEN _get_formatted_date(now) ELSE cap[1]

\* if caption is None: caption = self._get_formatted_date()
DefaultCaption(cap, now) == IF cap = None THEN _get_formatted_date(now) ELSE cap[1]

\* if isinstance(image_paths, str): image_paths = [image_paths]
NormalizePaths(p) == IF p.isstr THEN <<p.str>> ELSE p.list

\* the carousel branch taken for one image too: `len(image_paths) >= 1`
IsCarousel_FromOne(paths) == Len(paths) >= 1

\* if len(image_paths) > 1
IsCarousel(paths) == Len(paths) > 1

\* ",".join(children_ids)
RECURSIVE Join(_)
Join(ids) == IF Len(ids) = 0 THEN ""
             ELSE IF Len(ids) = 1 THEN ids[1]
             ELSE ids[1] \o "," \o Join(Tail(ids))

\* "id" in response
HasId(response) == "id" \in DOMAIN response

\* the id put in front: `children_ids.insert(0, response["id"])`
AppendChild_Front(ids, id) == <<id>> \o ids

\* children_ids.append(response["id"])
AppendChild(ids, id) == Append(ids, id)

\* the requests the four private methods send: the path under base_url and
\* the params dict
SingleMediaCall(image_url, cap) ==
    [endpoint |-> "/" \o account_id \o "/media",
     params |-> [access_token |-> access_token, image_url |-> image_url,
                 caption |-> cap]]
CarouselItemCall(image_url) ==
    [endpoint |-> "/" \o account_id \o "/media",
     params |-> [access_token |-> access_token, image_url |-> image_url,
                 is_carousel_item |-> TRUE]]
CarouselContainerCall(ids, cap) ==
    [endpoint |-> "/" \o account_id \o "/media",
     params |-> [access_token |-> access_token, media_type |-> "CAROUSEL",
                 children |-> Join(ids), caption |-> cap]]
PublishCall(creation_id) ==
    [endpoint |-> "/" \o account_id \o "/media_publish",
     params |-> [access_token |-> access_token, creation_id |-> creation_id]]

\* the item numbered from 0: `enumerate(image_paths)`
ItemFailure_FromZero(i) ==
    [success |-> FALSE, error |-> "carousel item " \o ToString(i - 1) \o " creation failed"]

\* the three failure dicts and the success dict
\* "캐러셀 아이템 {i} 생성 실패"
ItemFailure(i) ==
    [success |-> FALSE, error |-> "carousel item " \o ToString(i) \o " creation failed"]
\* "미디어 컨테이너 ID를 받지 못했습니다"
ContainerFailure == [success |-> FALSE, error |-> "media container ID not received"]
\* "게시물 ID를 받지 못했습니다"
PublishFailure == [success |-> FALSE, error |-> "post ID not received"]
\* "이미지가 성공적으로 Instagram에 업로드되었습니다. 원본 파일은 이제 삭제해도 됩니다."
SuccessStatus == "image uploaded to Instagram; the original file may be deleted"
Success(post_id) == [success |-> TRUE, post_id |-> post_id, status |-> SuccessStatus]

\* lines 162-170, with a post_id taken by .get and so never missing
PublishResult_Get(cont, publish_data) ==
    Success(IF HasId(publish_data) THEN publish_data.id ELSE "None")

\* lines 162-170, with the container's id returned as the post_id
PublishResult_ContainerId(cont, publish_data) ==
    IF ~HasId(publish_data) THEN PublishFailure ELSE Success(cont.id)

\* lines 162-170: the publish response is checked and the result built
PublishResult(cont, publish_data) ==
    IF ~HasId(publish_data) THEN PublishFailure ELSE Success(publish_data.id)

\* "Instagram 포스팅 중 오류 발생: "
ErrorPrefix == "Instagram posting error: "

\* the except clause without the extraction of the body's message
ExtractMessage_Raw(e) == [raises |-> "", msg |-> e.str]

\* The except clause, lines 172-181.  Gives what the handler does with e:
\* it returns a dict, or an exception raised inside the handler escapes.
\*   hasattr(e.response, 'json') is false for None;
\*   e.response.json() raises ValueError on a non-JSON body (caught, pass);
\*   'error' in error_data raises TypeError when error_data is a number;
\*   error_data['error'].get raises AttributeError when it is not a dict.
ExtractMessage(e) ==
    LET r == e.response IN
    IF ~r.present \/ ~r.isjson THEN [raises |-> "", msg |-> e.str]
    ELSE IF r.data.t = "num" THEN [raises |-> "TypeError", msg |-> ""]
    ELSE IF "error" \notin DOMAIN r.data.f THEN [raises |-> "", msg |-> e.str]
    ELSE IF r.data.f.error.t # "obj" THEN [raises |-> "AttributeError", msg |-> ""]
    ELSE IF "message" \in DOMAIN r.data.f.error.f
         THEN [raises |-> "", msg |-> r.data.f.error.f.message.s]
         ELSE [raises |-> "", msg |-> e.str]

TransportFailure(msg) == [success |-> FALSE, error |-> ErrorPrefix \o msg]

\* ---------------------------------------------------------- state changes
NoResult == [success |-> FALSE, error |-> ""]

Return(r) ==
    /\ pc' = "done"
    /\ outcome' = "returned"
    /\ result' = r
    /\ exception' = ""

Raise(x) ==
    /\ pc' = "done"
    /\ outcome' = "raised"
    /\ result' = NoResult
    /\ exception' = x

Continue(next) ==
    /\ pc' = next
    /\ UNCHANGED <<outcome, result, exception>>

\* a RequestException e reaches the except clause
HandleRequestException(e) ==
    LET m == ExtractMessage(e) IN
    IF m.raises # "" THEN Raise(m.raises) ELSE Return(TransportFailure(m.msg))

\* the call c is issued and ends with r (a response) or e (an exception)
Responded(c, r) ==
    /\ calls' = Append(calls, c)
    /\ resps' = Append(resps, [ok |-> TRUE, json |-> Some(r), exc |-> None])
Failed(c, e) ==
    /\ calls' = Append(calls, c)
    /\ resps' = Append(resps, [ok |-> FALSE, json |-> None, exc |-> Some(e)])

Init ==
    /\ pc = "idle"
    /\ image_paths = <<>>
    /\ caption = ""
    /\ children_ids = <<>>
    /\ container = [status |-> "IN_PROGRESS"]
    /\ calls = <<>>
    /\ resps = <<>>
    /\ arg_paths = [isstr |-> FALSE, str |-> "", list |-> <<>>]
    /\ arg_caption = None
    /\ outcome = "running"
    /\ result = NoResult
    /\ exception = ""

\* post_image is entered: lines 126-135
Enter ==
    /\ pc = "idle"
    /\ \E p \in ImagePathInputs, c \in CaptionInputs, now \in Nows :
        /\ arg_paths' = p
        /\ arg_caption' = c
        /\ caption' = DefaultCaption(c, now)
        /\ image_paths' = NormalizePaths(p)
        /\ pc' = IF IsCarousel(NormalizePaths(p)) THEN "items" ELSE "single"
    /\ UNCHANGED <<children_ids, container, calls, resps, outcome, result, exception>>

\* one iteration of the for loop, lines 140-145
CreateCarouselItem ==
    /\ pc = "items"
    /\ LET i == Len(children_ids) + 1
           c == CarouselItemCall(image_paths[i]) IN
       \/ \E r \in OkResponses :
            /\ Responded(c, r)
            /\ IF ~HasId(r)
               THEN Return(ItemFailure(i)) /\ UNCHANGED children_ids
               ELSE /\ children_ids' = AppendChild(children_ids, r.id)
                    /\ Continue(IF i = Len(image_paths) THEN "carousel" ELSE "items")
       \/ \E e \in RequestExceptions :
            /\ Failed(c, e)
            /\ HandleRequestException(e)
            /\ UNCHANGED children_ids
    /\ UNCHANGED <<image_paths, caption, container, arg_paths, arg_caption>>

\* the container response passed on unchecked
CheckContainer_Unchecked(r) ==
    /\ container' = r
    /\ Continue("publish")

\* the container response is checked, lines 155-156
CheckContainer(r) ==
    /\ container' = r
    /\ IF ~HasId(r) THEN Return(ContainerFailure) ELSE Continue("publish")

\* lines 149, 155-156
CreateCarouselContainer ==
    /\ pc = "carousel"
    /\ LET c == CarouselContainerCall(children_ids, caption) IN
       \/ \E r \in OkResponses : Responded(c, r) /\ CheckContainer(r)
       \/ \E e \in RequestExceptions :
            Failed(c, e) /\ HandleRequestException(e) /\ UNCHANGED container
    /\ UNCHANGED <<image_paths, caption, children_ids, arg_paths, arg_caption>>

\* lines 153, 155-156; image_paths[0] raises IndexError on an empty list
CreateSingleMedia ==
    /\ pc = "single"
    /\ IF Len(image_paths) = 0
       THEN Raise("IndexError") /\ UNCHANGED <<calls, resps, container>>
       ELSE LET c == SingleMediaCall(image_paths[1], caption) IN
            \/ \E r \in OkResponses : Responded(c, r) /\ CheckContainer(r)
            \/ \E e \in RequestExceptions :
                 Failed(c, e) /\ HandleRequestException(e) /\ UNCHANGED container
    /\ UNCHANGED <<image_paths, caption, children_ids, arg_paths, arg_caption>>

\* lines 160-170
PublishMedia ==
    /\ pc = "publish"
    /\ LET c == PublishCall(container.id) IN
       \/ \E r \in OkResponses :
            /\ Responded(c, r)
            /\ Return(PublishResult(container, r))
       \/ \E e \in RequestExceptions : Failed(c, e) /\ HandleRequestException(e)
    /\ UNCHANGED <<image_paths, caption, children_ids, container, arg_paths, arg_caption>>

Next ==
    \/ Enter
    \/ CreateCarouselItem
    \/ CreateCarouselContainer
    \/ CreateSingleMedia
    \/ PublishMedia

Spec == Init /\ [][Next]_vars

\* ------------------------------------------------- observations on a run
Done == pc = "done"
Returned == outcome = "returned"
NumCalls == Len(calls)

\* the URLs of the argument, in the order given
ArgUrls == IF arg_paths.isstr THEN <<arg_paths.str>> ELSE arg_paths.list

IsPublishCall(c) == c.endpoint = "/ACCOUNT/media_publish"
IsItemCall(c) == c.endpoint = "/ACCOUNT/media" /\ "is_carousel_item" \in DOMAIN c.params
IsCarouselContainerCall(c) == c.endpoint = "/ACCOUNT/media" /\ "media_type" \in DOMAIN c.params
IsSingleMediaCall(c) ==
    /\ c.endpoint = "/ACCOUNT/media"
    /\ DOMAIN c.params = {"access_token", "image_url", "caption"}
IsContainerCall(c) == IsSingleMediaCall(c) \/ IsCarouselContainerCall(c)

\* the k-th call returned normally and its response has / lacks "id"
GotId(k) == resps[k].ok /\ "id" \in DOMAIN resps[k].json[1]
GotNoId(k) == resps[k].ok /\ "id" \notin DOMAIN resps[k].json[1]
IdOf(k) == resps[k].json[1].id
\* the k-th call ended in a RequestException
GotException(k) == ~resps[k].ok
ExceptionOf(k) == resps[k].exc[1]

\* ids[1], ids[2], ... ids[n] with a comma between neighbours
RECURSIVE CommaJoined(_, _)
CommaJoined(ids, n) ==
    IF n = 0 THEN ""
    ELSE IF n = 1 THEN ids[1]
    ELSE CommaJoined(ids, n - 1) \o "," \o ids[n]

IsDefaultCaption(c) == \E now \in Nows : c = _get_formatted_date(now)

\* ------------------------------------------------------------------ claims

\* C1: post_image never raises: whatever the input and whatever the upstream
\* API does, no exception propagates to the caller.
C1_NeverRaises == outcome # "raised"

\* C2: for N > 1 URLs the first N calls are carousel-item calls, the i-th
\* carrying the i-th URL; a carousel-container call is call N+1, made after
\* all N item responses carried an id, and its children parameter is these
\* ids comma-joined in input order; a publish call is call N+2; when every
\* response has an id the invocation issues exactly these N+2 calls.
C2_CarouselSequence ==
    LET N == Len(ArgUrls) IN
    N > 1 =>
        /\ NumCalls <= N + 2
        /\ \A k \in 1..NumCalls :
            /\ k <= N => /\ IsItemCall(calls[k])
                         /\ calls[k].params.image_url = ArgUrls[k]
            /\ k = N + 1 =>
                 /\ IsCarouselContainerCall(calls[k])
                 /\ \A j \in 1..N : GotId(j)
                 /\ calls[k].params.children
                      = CommaJoined([j \in 1..N |-> IdOf(j)], N)
            /\ k = N + 2 => IsPublishCall(calls[k])
        /\ (Done /\ \A k \in 1..NumCalls : GotId(k)) => NumCalls = N + 2

C2_Witness ==
    /\ Done /\ Returned /\ result.success
    /\ Len(ArgUrls) >= 3
    /\ ArgUrls[1] # ArgUrls[2]
    /\ IdOf(1) # IdOf(2)
    /\ IdOf(2) = IdOf(3)

\* C3: for a single URL (a string or a one-element list) the invocation
\* issues exactly one container-creation call, the first call, carrying the
\* URL and the supplied or the default caption, and no carousel-item call
\* and no carousel-container call.
C3_SingleImage ==
    (Len(ArgUrls) = 1 /\ pc \notin {"idle", "single"}) =>
        /\ NumCalls >= 1
        /\ IsSingleMediaCall(calls[1])
        /\ calls[1].params.image_url = ArgUrls[1]
        /\ IF arg_caption = None
           THEN IsDefaultCaption(calls[1].params.caption)
           ELSE calls[1].params.caption = arg_caption[1]
        /\ \A k \in 2..NumCalls : ~IsContainerCall(calls[k])
        /\ \A k \in 1..NumCalls : ~IsItemCall(calls[k]) /\ ~IsCarouselContainerCall(calls[k])

C3_Witness ==
    /\ Done /\ Returned /\ result.success
    /\ ~arg_paths.isstr /\ Len(ArgUrls) = 1
    /\ NumCalls = 2

\* C4: when the response to the k-th carousel-item call lacks id, the
\* invocation returns the failure naming item k and that call is its last:
\* no later item call, no carousel-container call, no publish call.
C4_ItemFailureAborts ==
    \A k \in 1..NumCalls :
        (IsItemCall(calls[k]) /\ GotNoId(k)) =>
            /\ Done /\ Returned
            /\ result = [success |-> FALSE,
                         error |-> "carousel item " \o ToString(k) \o " creation failed"]
            /\ NumCalls = k
            /\ \A j \in 1..NumCalls : IsItemCall(calls[j])

C4_Witness ==
    /\ Done /\ Returned
    /\ Len(ArgUrls) = 3 /\ NumCalls = 2
    /\ GotId(1) /\ GotNoId(2)

\* C5: a publish call directly follows a container-creation call whose
\* response has an id, and its creation_id is that id; when the container
\* response lacks id the invocation returns a failure and makes no publish
\* call.
C5_PublishNeedsContainerId ==
    /\ \A k \in 1..NumCalls :
        IsPublishCall(calls[k]) =>
            /\ k > 1
            /\ IsContainerCall(calls[k - 1])
            /\ GotId(k - 1)
            /\ calls[k].params.creation_id = IdOf(k - 1)
    /\ \A k \in 1..NumCalls :
        (IsContainerCall(calls[k]) /\ GotNoId(k)) =>
            /\ Done /\ Returned /\ ~result.success
            /\ NumCalls = k
            /\ \A j \in 1..NumCalls : ~IsPublishCall(calls[j])

C5_Witness ==
    /\ Done /\ Returned /\ ~result.success
    /\ NumCalls = 3
    /\ IsCarouselContainerCall(calls[3]) /\ GotNoId(3)

\* the body of the exception's response decodes to a JSON object
HasJsonObject(e) ==
    e.response.present /\ e.response.isjson /\ e.response.data.t = "obj"
\* ... that has an error member which is an object with a message
HasStructuredMessage(e) ==
    /\ HasJsonObject(e)
    /\ "error" \in DOMAIN e.response.data.f
    /\ e.response.data.f.error.t = "obj"
    /\ "message" \in DOMAIN e.response.data.f.error.f
\* the message of the structured error body when available, else str(e)
MessageOrText(e) ==
    IF HasStructuredMessage(e) THEN e.response.data.f.error.f.message.s ELSE e.str
\* the bodies the handler reads without itself raising: no response, a body
\* that is not JSON, a JSON object without error, or with an error object
HandlerReads(e) ==
    \/ ~e.response.present
    \/ ~e.response.isjson
    \/ /\ HasJsonObject(e)
       /\ "error" \in DOMAIN e.response.data.f => e.response.data.f.error.t = "obj"

C7_PublishWithoutIdFails ==
    \A k \in 1..NumCalls :
        (IsPublishCall(calls[k]) /\ GotNoId(k)) =>
            /\ Done /\ Returned
            /\ ~result.success
            /\ NumCalls = k
            /\ k > 1 /\ IsContainerCall(calls[k - 1]) /\ GotId(k - 1)

C7_Witness ==
    /\ Done /\ Returned /\ ~result.success
    /\ NumCalls >= 2
    /\ IsPublishCall(calls[NumCalls]) /\ GotNoId(NumCalls)
    /\ GotId(NumCalls - 1)

\* C8: a container-creation call (single or carousel) carries the caller's
\* caption verbatim whenever one is passed, the empty string included, and
\* a generated default only when the caption is None; a carousel-item call
\* carries no caption.
C8_CaptionVerbatim ==
    \A k \in 1..NumCalls :
        /\ IsContainerCall(calls[k]) =>
             IF arg_caption = None
             THEN IsDefaultCaption(calls[k].params.caption)
             ELSE calls[k].params.caption = arg_caption[1]
        /\ IsItemCall(calls[k]) => "caption" \notin DOMAIN calls[k].params

C8_Witness ==
    /\ arg_caption = Some("")
    /\ NumCalls = 3
    /\ IsItemCall(calls[1])
    /\ IsCarouselContainerCall(calls[3])
    /\ calls[3].params.caption = ""

\* no call is repeated: item calls are one per URL in order, at most one
\* container-creation call, at most one publish call, and a call that
\* failed (exception or missing id) is the last call
NoRetries ==
    /\ Cardinality({k \in 1..NumCalls : IsContainerCall(calls[k])}) <= 1
    /\ Cardinality({k \in 1..NumCalls : IsPublishCall(calls[k])}) <= 1
    /\ Cardinality({k \in 1..NumCalls : IsItemCall(calls[k])}) <= Len(ArgUrls)
    /\ \A k \in 1..NumCalls :
        /\ IsItemCall(calls[k]) =>
             /\ \A j \in 1..k : IsItemCall(calls[j])
             /\ calls[k].params.image_url = ArgUrls[k]
        /\ (GotException(k) \/ GotNoId(k)) => NumCalls = k
        /\ IsPublishCall(calls[k]) => k > 1 /\ IsContainerCall(calls[k - 1])

\* C9: every invocation ends in exactly one of the terminal states
\* Published (a success record) and Failed (a failure record), passing
\* through item building, container creation and publishing in that order,
\* and no call is retried or issued after a failure.
C9_StateMachine ==
    /\ Done => Returned
    /\ NoRetries

\* C10: a success record is returned if and only if every call of the
\* invocation returned normally with an id and the last of them is the
\* publish call; its post_id is the id of the publish response.
C10_SuccessIffAllIds ==
    Done =>
        /\ (Returned /\ result.success)
             <=> /\ NumCalls >= 1
                 /\ IsPublishCall(calls[NumCalls])
                 /\ \A k \in 1..NumCalls : GotId(k)
        /\ (Returned /\ result.success) =>
             /\ result = [success |-> TRUE, post_id |-> IdOf(NumCalls),
                          status |-> SuccessStatus]
             /\ \E k \in 1..NumCalls : IsPublishCall(calls[k])

C10_Witness ==
    /\ Done /\ Returned /\ result.success
    /\ NumCalls = 4
    /\ IdOf(4) # IdOf(3) /\ IdOf(4) # IdOf(1)

====
